---- MODULE Spec2Model ----
(***************************************************************************)
(* Model of the feature retrieval and segmentation pipeline of             *)
(* targeting-ai-draft: TargetingEngine (src/targeting_engine.py),          *)
(* FeatureSearchEngine (src/feature_engine.py) and the UI driver           *)
(* (src/main.py).                                                          *)
(*                                                                         *)
(* Conventions.                                                            *)
(*  - A Python str is a sequence of one-character tokens.  The characters  *)
(*    that the code tests for are tokens of their own: "MAN" is the        *)
(*    ten-thousand magnitude word, "MYEONG" the population-unit suffix.    *)
(*  - The outcome of a Python call is a record: [val |-> v] when it        *)
(*    returns v, [exc |-> "Name"] when it raises exception Name.           *)
(*  - A date is the number of days since 2024-01-01 (day 0); strftime      *)
(*    turns it into the triple <<year, month, day>>.                       *)
(***************************************************************************)
EXTENDS Integers, Sequences, FiniteSets, TLC

VARIABLES
    count_str,      \* argument of the last _parse_target_count call
    parsed,         \* its outcome
    plan_data,      \* argument of the last process_segmentation call
    now,            \* datetime.now() during that call (a day number)
    ai_response,    \* what the generative-service chain did during that call
    seg_outcome,    \* outcome of that call
    vector_store,   \* FeatureSearchEngine.vector_store
    build_outcome,  \* outcome of _initialize_features
    search_k,       \* argument k of the search_and_reason call
    retrieved,      \* what the index returns for the query of that call
    search_outcome, \* outcome of that call
    scores,         \* two distances handed to the similarity conversion
    similarities,   \* the similarities it reports for them
    random_state,   \* state of the process-wide generator of module random
    documents,      \* the documents list of the last completed catalog build
    previous_documents, \* the documents list of the completed build before it
    builds,         \* number of _initialize_features calls so far
    session_state,  \* st.session_state of the browser session
    widgets,        \* the input widgets the last script run left on the page
    last_run        \* the event the last script run handled and how it ended

parseVars == <<count_str, parsed>>
segVars == <<plan_data, now, ai_response, seg_outcome>>
searchVars == <<vector_store, build_outcome, search_k, retrieved, search_outcome>>
simVars == <<scores, similarities>>
catalogVars == <<random_state, documents, previous_documents, builds>>
uiVars == <<session_state, widgets, last_run>>
vars == <<parseVars, segVars, searchVars, simVars, catalogVars, uiVars>>

(***************************************************************************)
(* Bounds of the model.                                                    *)
(***************************************************************************)
MaxLen == 4        \* longest enumerated target_count string, in characters
MaxFreq == 4       \* largest frequency of a request
NegFreq == 2       \* frequencies go down to -NegFreq
MaxItems == 6      \* longest "segments" list the generative service returns
MaxNow == 3        \* number of sampled values of datetime.now(), minus one
MaxK == 3          \* largest k of a search_and_reason call
MaxDocId == 4      \* the index answers with documents of id 1..MaxDocId
MaxSearchScore == 5  \* scores of a retrieval: 0..MaxSearchScore, in 1/65536
MaxFine == 40      \* similarity conversion: scores 0..MaxFine, in 1/65536
MaxUnit == 32      \* similarity conversion: whole scores 0..MaxUnit
MaxFar == 15       \* similarity conversion: whole scores 19980, 19982, ...
MaxSeed == 11      \* initial states of the random generator: 0..MaxSeed
MaxBuilds == 3     \* catalog builds in one process
MaxMessages == 4   \* a prompt is accepted while the chat is shorter than this
MaxPrompts == 1    \* number of distinct prompt texts
MaxUiNow == 0      \* the UI driver runs on one of the first MaxUiNow + 1 sampled days

(***************************************************************************)
(* Outcomes of calls.                                                      *)
(***************************************************************************)
Val(v) == [val |-> v]
Exc(e) == [exc |-> e]
IsExc(o) == "exc" \in DOMAIN o
NoCall == [none |-> TRUE]

(***************************************************************************)
(* Python str operations on token sequences.                               *)
(***************************************************************************)
Digits == {"0", "1", "2", "3", "4", "5", "6", "7", "8", "9"}

DigitVal(c) ==
    CASE c = "0" -> 0 [] c = "1" -> 1 [] c = "2" -> 2 [] c = "3" -> 3
      [] c = "4" -> 4 [] c = "5" -> 5 [] c = "6" -> 6 [] c = "7" -> 7
      [] c = "8" -> 8 [] c = "9" -> 9

\* str.replace(tok, ""): every occurrence of tok is removed
Remove(s, tok) == SelectSeq(s, LAMBDA c : c # tok)

\* tok in s
Contains(s, tok) == \E i \in 1..Len(s) : s[i] = tok

RECURSIVE LStrip(_)
LStrip(s) == IF s # <<>> /\ Head(s) = " " THEN LStrip(Tail(s)) ELSE s

RECURSIVE RStrip(_)
RStrip(s) ==
    IF s # <<>> /\ s[Len(s)] = " " THEN RStrip(SubSeq(s, 1, Len(s) - 1)) ELSE s

\* str.strip()
Strip(s) == RStrip(LStrip(s))

AllDigits(s) == \A i \in 1..Len(s) : s[i] \in Digits

\* value of a string of decimal digits
RECURSIVE DigitsVal(_)
DigitsVal(s) ==
    IF s = <<>> THEN 0
    ELSE 10 * DigitsVal(SubSeq(s, 1, Len(s) - 1)) + DigitVal(s[Len(s)])

RECURSIVE Pow(_, _)
Pow(b, e) == IF e = 0 THEN 1 ELSE b * Pow(b, e - 1)

\* int(s) for a str s: surrounding whitespace and one sign are accepted
PyInt(s) ==
    LET t == Strip(s)
        neg == t # <<>> /\ Head(t) = "-"
        body == IF neg THEN Tail(t) ELSE t
    IN  IF body # <<>> /\ AllDigits(body)
        THEN Val(IF neg THEN 0 - DigitsVal(body) ELSE DigitsVal(body))
        ELSE Exc("ValueError")

\* float(s) for a str s, as the decimal it denotes: [neg, m, f] stands for
\* (+/-) m / 10^f.  Surrounding whitespace and one sign are accepted, then
\* digits with at most one point and at least one digit.
PyFloatLiteral(s) ==
    LET t == Strip(s)
        neg == t # <<>> /\ Head(t) = "-"
        body == IF neg THEN Tail(t) ELSE t
        digs == Remove(body, ".")
        points == Len(body) - Len(digs)
        dot == IF points = 1 THEN CHOOSE i \in 1..Len(body) : body[i] = "." ELSE 0
    IN  IF digs # <<>> /\ AllDigits(digs) /\ points <= 1
        THEN Val([neg |-> neg, m |-> DigitsVal(digs),
                  f |-> IF points = 0 THEN 0 ELSE Len(body) - dot])
        ELSE Exc("ValueError")

(***************************************************************************)
(* IEEE-754 binary64 arithmetic of int(float(s) * 10000).                  *)
(*                                                                         *)
(* x = m / 10^f is first rounded to the nearest double fl(x), the product  *)
(* fl(x) * 10000 is rounded to the nearest double again, and int()         *)
(* truncates.  With v = m * 10^(4-f) the exact decimal product (f <= 4):   *)
(*   a = floor(log2 x), so fl(x) has 2^(a-52) as its unit in the last      *)
(*       place, and with k = 52 - a,  m * 2^k = 10^f * q + r;              *)
(*   fl(x) is below x exactly when 0 < 2r < 10^f, by r / (10^f * 2^k);     *)
(*   the product is then below v by 10^(4-f) * r / 2^k, and it rounds to   *)
(*       the double below v exactly when that exceeds half the spacing of  *)
(*       the doubles below v, 2^(j-53) with j = floor(log2 v) (2^(j-54)    *)
(*       when v is a power of two); int() then yields v - 1.               *)
(* Otherwise the rounded product lies in [v, v + 1) and int() yields v.    *)
(***************************************************************************)
RECURSIVE Log2Floor(_)
Log2Floor(n) == IF n <= 1 THEN 0 ELSE 1 + Log2Floor(n \div 2)

\* least t >= 1 with n * 2^t >= d, for 0 < n < d
RECURSIVE ShiftsToReach(_, _)
ShiftsToReach(n, d) == IF 2 * n >= d THEN 1 ELSE 1 + ShiftsToReach(2 * n, d)

RECURSIVE PowMod(_, _, _)
PowMod(b, e, n) == IF e = 0 THEN 1 % n ELSE (b * PowMod(b, e - 1, n)) % n

RoundsBelow(m, f) ==
    LET D == Pow(10, f)
        scale == Pow(10, 4 - f)
        v == m * scale
        a == IF m >= D THEN Log2Floor(m \div D) ELSE 0 - ShiftsToReach(m, D)
        k == 52 - a
        r == ((m % D) * PowMod(2, k, D)) % D
        j == Log2Floor(v)
        e == IF v = Pow(2, j) THEN j - a - 2 ELSE j - a - 1
    IN  r > 0 /\ 2 * r < D /\ scale * r > Pow(2, e)

\* int(x * 10000) for the float x = (+/-) m / 10^f, f <= 4; int() truncates
\* towards zero, so the sign carries over
FloatTimes10000Int(lit) ==
    LET v == lit.m * Pow(10, 4 - lit.f)
        mag == IF lit.m > 0 /\ RoundsBelow(lit.m, lit.f) THEN v - 1 ELSE v
    IN  IF lit.neg THEN 0 - mag ELSE mag

(***************************************************************************)
(* TargetingEngine._parse_target_count                                     *)
(***************************************************************************)
DefaultTargetCount == 900000

\* A plan_data value is [type |-> "str", chars |-> <<...>>], or a JSON number
\* or null, which have no replace method.
Str(chars) == [type |-> "str", chars |-> chars]

\* the body of the try block, lines 61-64
ParseTargetCountTry(arg) ==
    IF arg.type # "str" THEN Exc("AttributeError")
    ELSE LET clean_str == Strip(Remove(Remove(arg.chars, ","), "MYEONG"))
         IN  IF Contains(clean_str, "MAN")
             THEN LET lit == PyFloatLiteral(Remove(clean_str, "MAN"))
                  IN  IF IsExc(lit) THEN lit ELSE Val(FloatTimes10000Int(lit.val))
             ELSE PyInt(clean_str)

\* the bare except of lines 65-66 catches every exception
ParseTargetCount(arg) ==
    LET got == ParseTargetCountTry(arg)
    IN  IF IsExc(got) THEN Val(DefaultTargetCount) ELSE got

(***************************************************************************)
(* Calls of _parse_target_count: every string of at most MaxLen characters *)
(* over Alphabet, the strings the documentation names, and the values that *)
(* are not strings.                                                        *)
(***************************************************************************)
Alphabet == {"0", "1", "5", "7", ",", ".", "-", " ", "g", "MAN", "MYEONG"}

Example100Man == Str(<<"1", "0", "0", "MAN", "MYEONG">>)
Example50000 == Str(<<"5", "0", ",", "0", "0", "0">>)
ExampleGarbage == Str(<<"g", "a", "r", "b", "a", "g", "e">>)

CountArgs ==
    {Str(cs) : cs \in UNION {[1..n -> Alphabet] : n \in 0..MaxLen}}
        \cup {Example100Man, Example50000, ExampleGarbage}
        \cup {[type |-> "int"], [type |-> "null"]}

\* no call is in progress
ParseIdle == count_str = NoCall /\ parsed = NoCall

\* the caller has chosen the argument
ParseInit == count_str \in CountArgs /\ parsed = NoCall

ParseCall ==
    /\ parsed = NoCall
    /\ parsed' = ParseTargetCount(count_str)
    /\ UNCHANGED count_str

(***************************************************************************)
(* Python integer and sequence operations.                                 *)
(***************************************************************************)
\* a // b (floor division), b # 0
PyFloorDiv(a, b) == IF b > 0 THEN a \div b ELSE (0 - a) \div (0 - b)

\* a % b, b # 0: the result takes the sign of b
PyMod(a, b) == IF b > 0 THEN a % b ELSE 0 - ((0 - a) % (0 - b))

\* s[:n]: the first n elements, or all but the last -n when n is negative
PySlice(s, n) ==
    IF n >= 0 THEN SubSeq(s, 1, IF n < Len(s) THEN n ELSE Len(s))
    ELSE SubSeq(s, 1, Len(s) + n)

\* dict.get(key, default)
DictGet(d, key, default) == IF key \in DOMAIN d THEN d[key] ELSE default

DigitTok(d) ==
    CASE d = 0 -> "0" [] d = 1 -> "1" [] d = 2 -> "2" [] d = 3 -> "3"
      [] d = 4 -> "4" [] d = 5 -> "5" [] d = 6 -> "6" [] d = 7 -> "7"
      [] d = 8 -> "8" [] d = 9 -> "9"

\* str(n), n >= 0
RECURSIVE Decimal(_)
Decimal(n) ==
    IF n < 10 THEN <<DigitTok(n)>> ELSE Decimal(n \div 10) \o <<DigitTok(n % 10)>>

\* f"{n:,}", n >= 0: groups of three digits, separated by commas
RECURSIVE Grouped(_)
Grouped(n) ==
    IF n < 1000 THEN Decimal(n)
    ELSE Grouped(n \div 1000)
            \o <<",", DigitTok((n \div 100) % 10), DigitTok((n \div 10) % 10), DigitTok(n % 10)>>

\* f"{n:,}"
FormatThousands(n) == IF n < 0 THEN <<"-">> \o Grouped(0 - n) ELSE Grouped(n)

(***************************************************************************)
(* datetime: dates are day numbers, strftime("%Y-%m-%d") yields the        *)
(* calendar triple.                                                        *)
(***************************************************************************)
IsLeap(y) == (y % 4 = 0 /\ y % 100 # 0) \/ y % 400 = 0

DaysInYear(y) == IF IsLeap(y) THEN 366 ELSE 365

DaysInMonth(y, m) ==
    IF m = 2 THEN (IF IsLeap(y) THEN 29 ELSE 28)
    ELSE IF m \in {4, 6, 9, 11} THEN 30 ELSE 31

RECURSIVE MonthDay(_, _, _)
MonthDay(d, y, m) ==
    IF d >= DaysInMonth(y, m) THEN MonthDay(d - DaysInMonth(y, m), y, m + 1)
    ELSE <<y, m, d + 1>>

RECURSIVE YearMonthDay(_, _)
YearMonthDay(d, y) ==
    IF d >= DaysInYear(y) THEN YearMonthDay(d - DaysInYear(y), y + 1)
    ELSE MonthDay(d, y, 1)

\* date.strftime("%Y-%m-%d") of day number d >= 0 (day 0 is 2024-01-01)
Strftime(d) == YearMonthDay(d, 2024)

(***************************************************************************)
(* The generative-service chain  prompt | llm | JsonOutputParser()         *)
(* (lines 109-110).  Its outcome is one of                                 *)
(*   [kind |-> "raise"]        the call fails or times out;                *)
(*   [kind |-> "unparseable"]  the parser rejects the output as non-JSON;  *)
(*   [kind |-> "json", data |-> d]  it returns the parsed JSON value d:    *)
(*      [type |-> "list"]                       not a JSON object,         *)
(*      [type |-> "dict", entries |-> e]        an object with entries e.  *)
(* e maps "segments" (when present) to [type |-> "null"] or to             *)
(* [type |-> "list", items |-> <<...>>]; an item is a dict holding some of *)
(* the keys "name" and "traits".                                           *)
(***************************************************************************)
AiName(i) == <<"ai", "_", "name", "_">> \o Decimal(i)
AiTraits(i) == <<"ai", "_", "traits", "_">> \o Decimal(i)

\* the i-th item of a response: well-formed, or with a key missing
AiItem(i, shape) ==
    CASE shape = "ok" -> [name |-> AiName(i), traits |-> AiTraits(i)]
      [] shape = "noname" -> [traits |-> AiTraits(i)]
      [] shape = "notraits" -> [name |-> AiName(i)]

\* lists of n items, well-formed except for at most one item (bad = 0: none)
AiItems(n, bad, shape) ==
    [i \in 1..n |-> AiItem(i, IF i = bad THEN shape ELSE "ok")]

AiLists ==
    {AiItems(n, 0, "ok") : n \in 0..MaxItems}
        \cup {AiItems(n, bad, shape) :
                n \in 1..MaxItems, bad \in 1..MaxItems, shape \in {"noname", "notraits"}}

JsonDict(e) == [type |-> "dict", entries |-> e]

AiResponses ==
    {[kind |-> "raise"], [kind |-> "unparseable"]}
        \cup {[kind |-> "json", data |-> d] :
                d \in {[type |-> "list"],
                       JsonDict(<<>>),
                       JsonDict([segments |-> [type |-> "null"]])}
                      \cup {JsonDict([segments |-> [type |-> "list", items |-> l]]) :
                                l \in AiLists}}

(***************************************************************************)
(* TargetingEngine._generate_ai_segments                                   *)
(***************************************************************************)
LeadDays == 7
GapDays == 3

FallbackName(i) == <<"CoreTargetGroup", " ">> \o Decimal(i + 1)
FallbackTraits(product) == product \o <<"_", "core", "_", "target">>

\* line 114: the fallback list, one item per i in range(num_segments)
FallbackSegments(product, num_segments) ==
    [type |-> "list",
     items |-> [i \in 1..num_segments |->
                    [name |-> FallbackName(i - 1), traits |-> FallbackTraits(product)]]]

\* lines 108-114: the try block and its except clause
SegmentsRaw(product, num_segments, response) ==
    IF response.kind \in {"raise", "unparseable"}
    THEN FallbackSegments(product, num_segments)
    ELSE IF response.data.type # "dict"
    THEN FallbackSegments(product, num_segments)     \* .get raises AttributeError
    ELSE DictGet(response.data.entries, "segments", [type |-> "list", items |-> <<>>])

\* line 124
DayGap(frequency) == IF frequency > 1 THEN GapDays ELSE 0

\* SendDate with the gap multiplied by the parity of the index
SendDateAlternating(base_date, i, frequency) == base_date + (i % 2) * DayGap(frequency)

\* line 125, as a day number
SendDate(base_date, i, frequency) == base_date + PyMod(i, frequency) * DayGap(frequency)

\* line 119
AvgVolume(total_count, num_segments) == PyFloorDiv(total_count, num_segments)

\* lines 127-133: the row of the item seg at index i (from 0)
SegmentRow(i, seg, avg_volume, send_date) ==
    [seg_no |-> i + 1,
     seg_name |-> seg.name,
     seg_traits |-> seg.traits,
     volume |-> FormatThousands(avg_volume) \o <<"MYEONG">>,
     send_date |-> Strftime(send_date)]

\* lines 116-135
GenerateAiSegments(product, frequency, num_segments, total_count, response, today) ==
    LET segments_raw == SegmentsRaw(product, num_segments, response)
        base_date == today + LeadDays
    IN  IF num_segments = 0 THEN Exc("ZeroDivisionError")               \* line 119
        ELSE IF segments_raw.type # "list" THEN Exc("TypeError")        \* line 121
        ELSE LET taken == PySlice(segments_raw.items, num_segments)
                 avg_volume == AvgVolume(total_count, num_segments)
             IN  IF \E i \in 1..Len(taken) : ~({"name", "traits"} \subseteq DOMAIN taken[i])
                 THEN Exc("KeyError")                                   \* lines 129-130
                 ELSE Val([i \in 1..Len(taken) |->
                            SegmentRow(i - 1, taken[i], avg_volume,
                                       SendDate(base_date, i - 1, frequency))])

(***************************************************************************)
(* TargetingEngine.process_segmentation                                    *)
(***************************************************************************)
\* line 50
NumSegments(frequency) == IF frequency = 1 THEN 5 ELSE frequency

\* line 44
TotalTarget(plan) == ParseTargetCount(DictGet(plan, "target_count", Str(<<"0">>))).val

\* line 45
Frequency(plan) == DictGet(plan, "frequency", 1)

ProcessSegmentation(plan, response, today) ==
    LET total_target == TotalTarget(plan)
        frequency == Frequency(plan)
        product == DictGet(plan, "product", <<"this", "_", "product">>)
        num_segments == NumSegments(frequency)
    IN  GenerateAiSegments(product, frequency, num_segments, total_target, response, today)

(***************************************************************************)
(* Calls of process_segmentation.  A request carries a frequency between   *)
(* -NegFreq and MaxFreq, one of the target counts below and a product; the *)
(* keys the code reads with a default may be missing.                      *)
(***************************************************************************)
Product == <<"TestPhone">>

TargetCounts ==
    {Example100Man, Example50000, ExampleGarbage, Str(<<"7">>), Str(<<"-", "7">>)}

Frequencies == (0 - NegFreq)..MaxFreq

Plans ==
    {[product |-> Product, target_count |-> t, frequency |-> f] :
        t \in TargetCounts, f \in Frequencies}
        \cup {[product |-> Product, frequency |-> f] : f \in Frequencies}
        \cup {[product |-> Product, target_count |-> t] : t \in TargetCounts}
        \cup {[target_count |-> Example100Man, frequency |-> MaxFreq]}

\* sampled days: 2024-02-15, 2024-05-28, 2024-09-08, 2024-12-20, ...
NowDays == {45 + 103 * j : j \in 0..MaxNow}

\* no call is in progress
SegIdle ==
    /\ plan_data = NoCall
    /\ now = NoCall
    /\ ai_response = NoCall
    /\ seg_outcome = NoCall

\* the caller has chosen the request; the clock and the generative service
\* are in one of their possible conditions
SegInit ==
    /\ plan_data \in Plans
    /\ now \in NowDays
    /\ ai_response \in AiResponses
    /\ seg_outcome = NoCall

SegmentationCall ==
    /\ seg_outcome = NoCall
    /\ seg_outcome' = ProcessSegmentation(plan_data, ai_response, now)
    /\ UNCHANGED <<plan_data, now, ai_response>>

(***************************************************************************)
(* FeatureSearchEngine: the catalog and the index                          *)
(***************************************************************************)
NumArchetypes == 15
NumTags == 5

\* the id without the stride of the outer loop
DocumentIdWithoutStride(i, t) ==
    [id |-> i + t + 1,
     name |-> <<"feature", i, "tag", t>>,
     category |-> <<"category", i>>,
     evidence |-> <<"evidence", i>>]

\* lines 79-108: one document per archetype i and audience tag, with its id
\* (line 97) and the metadata the result rows read
Document(i, t) ==
    [id |-> i * NumTags + t + 1,
     name |-> <<"feature", i, "tag", t>>,
     category |-> <<"category", i>>,
     evidence |-> <<"evidence", i>>]

Documents == {Document(i, t) : i \in 0..(NumArchetypes - 1), t \in 0..(NumTags - 1)}

\* A score is the rational num / den, den a power of two: such a distance is
\* a float exactly.
Score(num, den) == [num |-> num, den |-> den]

ScoreLeq(s1, s2) == s1.num * s2.den <= s2.num * s1.den
ScoreLess(s1, s2) == s1.num * s2.den < s2.num * s1.den

\* line 118: vector_store.similarity_search_with_score(query, k=k) answers
\* with k distinct documents and their distances, closest first
Retrievals(k) ==
    {r \in [1..k -> {d \in Documents : d.id <= MaxDocId}
                        \X {Score(n, 65536) : n \in 0..MaxSearchScore}] :
        /\ \A i, j \in 1..k : i < j => r[i][1] # r[j][1]
        /\ \A i \in 1..(k - 1) : ScoreLeq(r[i][2], r[i + 1][2])}

(***************************************************************************)
(* FeatureSearchEngine.search_and_reason                                   *)
(***************************************************************************)
\* round(x, 4) for x = p / q >= 0, in units of 1/10000: the nearest multiple,
\* the even one when x lies exactly between two (the scores of the model
\* meet that case only where p / q is a float exactly)
Round4(p, q) ==
    LET whole == (10000 * p) \div q
        rest == (10000 * p) % q
    IN  IF 2 * rest > q \/ (2 * rest = q /\ whole % 2 = 1) THEN whole + 1 ELSE whole

\* 1 / (1 + score) cut to 4 decimal places instead of rounded
SimilarityTruncated(score) == (10000 * score.den) \div (score.den + score.num)

\* round(score / (1 + score), 4)
SimilarityInverted(score) == Round4(score.num, score.den + score.num)

\* line 125: round(1.0 / (1.0 + score), 4), in units of 1/10000
Similarity(score) == Round4(score.den, score.den + score.num)

\* lines 140-157: the justification, assembled from the metadata
GenerateReasoning(meta) == <<"evidence", meta.evidence>>

\* lines 128-134
ResultRow(doc, score) ==
    [no |-> doc.id,
     feature_name |-> doc.name,
     category |-> doc.category,
     similarity |-> Similarity(score),
     reason |-> GenerateReasoning(doc)]

\* insertion of a row before the rows that do not exceed it
InsertBeforeEquals(rows, row) ==
    LET ahead == SelectSeq(rows, LAMBDA r : r.similarity > row.similarity)
    IN  ahead \o <<row>> \o SubSeq(rows, Len(ahead) + 1, Len(rows))

\* insertion of a row into rows sorted by similarity, descending: behind
\* every row that is at least as similar
InsertDescending(rows, row) ==
    LET ahead == SelectSeq(rows, LAMBDA r : r.similarity >= row.similarity)
    IN  ahead \o <<row>> \o SubSeq(rows, Len(ahead) + 1, Len(rows))

\* line 137: results.sort(key=similarity, reverse=True), a stable sort
RECURSIVE SortDescending(_)
SortDescending(rows) ==
    IF rows = <<>> THEN <<>>
    ELSE InsertDescending(SortDescending(SubSeq(rows, 1, Len(rows) - 1)), rows[Len(rows)])

\* lines 117-138
SearchAndReason(store, docs_with_scores) ==
    IF store = "None" THEN Exc("AttributeError")      \* line 118: None has no such method
    ELSE Val(SortDescending([i \in 1..Len(docs_with_scores) |->
                ResultRow(docs_with_scores[i][1], docs_with_scores[i][2])]))

\* no engine exists
SearchIdle ==
    /\ vector_store = NoCall
    /\ build_outcome = NoCall
    /\ search_k = NoCall
    /\ retrieved = NoCall
    /\ search_outcome = NoCall

\* line 40 has run; the caller's k and the answer the index would give are fixed
SearchInit ==
    /\ vector_store = "None"
    /\ build_outcome = NoCall
    /\ search_k \in 0..MaxK
    /\ retrieved \in Retrievals(search_k)
    /\ search_outcome = NoCall

\* line 41, _initialize_features: line 110 builds the index
InitializeFeatures ==
    /\ build_outcome = NoCall
    /\ vector_store' = "FAISS"
    /\ build_outcome' = Val("None")
    /\ UNCHANGED <<search_k, retrieved, search_outcome>>

\* line 41, _initialize_features: the embedding service fails at line 110 and
\* the exception leaves the method with vector_store unset
InitializeFeaturesFails ==
    /\ build_outcome = NoCall
    /\ build_outcome' = Exc("EmbeddingServiceError")
    /\ UNCHANGED <<vector_store, search_k, retrieved, search_outcome>>

\* search_and_reason(plan_data, k) on the engine as it is: the method reads
\* self.vector_store whatever it holds, None (line 40) until line 110 has
\* completed
SearchCall ==
    /\ search_outcome = NoCall
    /\ search_outcome' = SearchAndReason(vector_store, retrieved)
    /\ UNCHANGED <<vector_store, build_outcome, search_k, retrieved>>

(***************************************************************************)
(* The similarity conversion of line 125 on its own, for two scores.       *)
(***************************************************************************)
SimScores ==
    {Score(n, 65536) : n \in 0..MaxFine}
        \cup {Score(n, 1) : n \in 0..MaxUnit}
        \cup {Score(19980 + 2 * n, 1) : n \in 0..MaxFar}

SimIdle == scores = NoCall /\ similarities = NoCall

SimInit == scores \in SimScores \X SimScores /\ similarities = NoCall

SimilarityCall ==
    /\ similarities = NoCall
    /\ similarities' = <<Similarity(scores[1]), Similarity(scores[2])>>
    /\ UNCHANGED scores

(***************************************************************************)
(* FeatureSearchEngine._initialize_features: the documents of the catalog. *)
(* The signals come from the generator of module random, which the process *)
(* shares between builds: a value drawn is a function of the generator's   *)
(* state, and every draw advances the state.  The generator is represented *)
(* by its seed and the number of values drawn so far.                      *)
(***************************************************************************)
\* line 77
segments == <<"Seoul", "MZ", "Worker", "HighIncome", "Trendsetter">>

\* list.index(x): the 0-based position of the first element equal to x
PyIndex(list, x) ==
    (CHOOSE k \in 1..Len(list) :
        list[k] = x /\ \A j \in 1..(k - 1) : list[j] # x) - 1

\* lines 88-89: the three trend words
Trends == <<"Up", "Flat", "Down">>

\* the n-th value after state rs, reduced to 0..(range - 1)
RandBelow(rs, n, range) ==
    ((rs.seed + 1) * (rs.drawn + n) * 7 + (rs.drawn + n) \div 5 + rs.seed) % range

\* random.randint(lo, hi) as the n-th draw after state rs
RandInt(rs, n, lo, hi) == lo + RandBelow(rs, n, hi - lo + 1)

\* random.choice(list) as the n-th draw after state rs
RandChoice(rs, n, list) == list[1 + RandBelow(rs, n, Len(list))]

\* the generator after `n' more draws
Advance(rs, n) == [seed |-> rs.seed, drawn |-> rs.drawn + n]

DrawsPerDocument == 5

\* lines 79-108, one pass of the inner loop: the document of archetype i and
\* tag seg, its signals drawn with the generator in state rs
CatalogDocument(i, seg, rs) ==
    LET base == Document(i, PyIndex(segments, seg))
    IN  [id |-> base.id,
         name |-> base.name,
         category |-> base.category,
         evidence |-> base.evidence,
         count |-> <<RandInt(rs, 1, 10, 150), "unit", i>>,
         time |-> <<RandInt(rs, 2, 20, 300), "time_unit", i>>,
         recency |-> <<RandInt(rs, 3, 1, 14), "DaysAgo">>,
         trend_weekly |-> RandChoice(rs, 4, Trends),
         trend_monthly |-> RandChoice(rs, 5, Trends)]

\* lines 76-108: the documents list, archetypes in the outer loop and tags in
\* the inner one, built with the generator starting in state rs
CatalogDocuments(rs) ==
    [p \in 1..(NumArchetypes * Len(segments)) |->
        CatalogDocument((p - 1) \div Len(segments),
                        segments[((p - 1) % Len(segments)) + 1],
                        Advance(rs, (p - 1) * DrawsPerDocument))]

\* the generator after a pass over all documents
AfterBuild(rs) ==
    Advance(rs, NumArchetypes * Len(segments) * DrawsPerDocument)

\* no process
CatalogIdle ==
    /\ random_state = NoCall
    /\ documents = NoCall
    /\ previous_documents = NoCall
    /\ builds = 0

\* a process has started: the generator is seeded, no catalog is built
CatalogInit ==
    /\ random_state \in {[seed |-> s, drawn |-> 0] : s \in 0..MaxSeed}
    /\ documents = NoCall
    /\ previous_documents = NoCall
    /\ builds = 0

\* _initialize_features completes (lines 43-110): the documents are generated
\* and handed to the index
BuildCatalog ==
    /\ builds < MaxBuilds
    /\ documents' = CatalogDocuments(random_state)
    /\ previous_documents' = documents
    /\ random_state' = AfterBuild(random_state)
    /\ builds' = builds + 1

\* _initialize_features raises at line 110 (the embedding service fails): the
\* documents were generated, so the values are drawn, and no catalog results
BuildCatalogFails ==
    /\ builds < MaxBuilds
    /\ random_state' = AfterBuild(random_state)
    /\ builds' = builds + 1
    /\ UNCHANGED <<documents, previous_documents>>

(***************************************************************************)
(* The UI driver (src/main.py).  Streamlit runs the script main() from top *)
(* to bottom once per event: the page load, a click on a button, a prompt  *)
(* submitted in the chat input, or a rerun the previous run asked for with *)
(* st.rerun().  st.session_state survives from run to run.  A run ends     *)
(* when main() returns ("complete"), when st.rerun() stops it ("rerun"),   *)
(* or when an exception leaves it (the name of the exception).             *)
(*  - None is the record [py_none |-> TRUE]; a list kept in session_state  *)
(*    is the record [type |-> "list", items |-> <<...>>].                  *)
(***************************************************************************)
None == [py_none |-> TRUE]
PyList(items) == [type |-> "list", items |-> items]

\* st.session_state after clear(), and in a new browser session
EmptySession == [k \in {} |-> None]

\* lines 106-117: every absent key gets its default
InitializeUi(ss) ==
    [messages |-> IF "messages" \in DOMAIN ss THEN ss.messages ELSE <<>>,
     step |-> IF "step" \in DOMAIN ss THEN ss.step ELSE "input",
     extracted_data |->
        IF "extracted_data" \in DOMAIN ss THEN ss.extracted_data ELSE None,
     selected_features |->
        IF "selected_features" \in DOMAIN ss THEN ss.selected_features ELSE None,
     segmentation_results |->
        IF "segmentation_results" \in DOMAIN ss THEN ss.segmentation_results ELSE None,
     scroll_trigger |->
        IF "scroll_trigger" \in DOMAIN ss THEN ss.scroll_trigger ELSE FALSE]

\* the events of a script run
NoEvent == [kind |-> "none"]
PromptEvent(text) == [kind |-> "prompt", text |-> text]
ClickEvent(widget) == [kind |-> "click", widget |-> widget]
Clicked(event, widget) == event.kind = "click" /\ event.widget = widget

\* how a script run leaves the session and the page
RunEnd(ss, how, shown) == [session |-> ss, end |-> how, widgets |-> shown]

\* the step decision with its first two answers exchanged
NextStepExchanged(ss) ==
    IF ss.selected_features = None THEN "segmentation"
    ELSE IF ss.segmentation_results = None THEN "discovery"
    ELSE "end"

\* lines 124-132: the step the continue button leads to
NextStep(ss) ==
    IF ss.selected_features = None THEN "discovery"
    ELSE IF ss.segmentation_results = None THEN "segmentation"
    ELSE "end"

WorkflowButtons == {"continue", "reset", "stop"}

\* lines 134-145, for the button `widget' that was clicked: the session
\* state at the st.rerun() that follows
HandleWorkflowButtons(ss, widget) ==
    CASE widget = "continue" -> [ss EXCEPT !.step = NextStep(ss)]
      [] widget = "reset" -> EmptySession
      [] widget = "stop" -> [ss EXCEPT !.step = "end"]

\* lines 174-176: the buttons are shown under the last message
ButtonsShown(ss) ==
    /\ ss.messages # <<>>
    /\ ss.messages[Len(ss.messages)].role = "assistant"
    /\ ss.step = "confirm"

(***************************************************************************)
(* CampaignExtractor.extract (lines 40-98).  The reply of the language     *)
(* model is one of [kind |-> "raise"], [kind |-> "unparseable"] and        *)
(* [kind |-> "json", data |-> d], as for the generative-service chain.     *)
(***************************************************************************)
MetricDefault == <<"InflowRate">>
DefaultStartDays == 7
DefaultDurationDays == 1

\* lines 89-93
CalculatedDate(start_dt, duration) ==
    IF duration > 1
    THEN <<Strftime(start_dt), "~", Strftime(start_dt + duration - 1)>>
    ELSE <<Strftime(start_dt)>>

\* line 78: the metric is missing, empty or "N/A"
MetricDefaulted(data) ==
    \/ "metric" \notin DOMAIN data
    \/ data.metric \in {<<>>, <<"N/A">>}

\* lines 77-95, on the parsed JSON object
Enrich(data, today) ==
    [metric |-> IF MetricDefaulted(data) THEN MetricDefault ELSE data.metric,
     metric_defaulted |-> MetricDefaulted(data),
     calculated_date |->
        CalculatedDate(today + DictGet(data, "start_days_relative", DefaultStartDays),
                       DictGet(data, "duration_days", DefaultDurationDays))] @@ data

Extract(reply, today) ==
    IF reply.kind # "json" THEN None                 \* lines 68-75 raise
    ELSE IF reply.data.type # "dict" THEN None       \* line 78: no method get
    ELSE Enrich(reply.data.entries, today)

\* lines 262-276: the summary message; the f-string reads these keys
SummaryKeys == {"metric", "calculated_date", "product", "frequency", "target_count"}

Summary(data) ==
    <<"summary", data.calculated_date, data.product, data.frequency,
      data.target_count, data.metric, data.metric_defaulted>>

\* lines 247-251: a prompt outside step input resets the stored data
ResetForPrompt(ss) ==
    IF ss.step # "input"
    THEN [ss EXCEPT !.step = "input",
                    !.extracted_data = None,
                    !.selected_features = None,
                    !.segmentation_results = None]
    ELSE ss

\* lines 253-254: the prompt joins the chat
AppendPrompt(ss, text) ==
    [ss EXCEPT !.messages = Append(@, [role |-> "user", content |-> text]),
               !.scroll_trigger = TRUE]

\* lines 259-280: extract has returned `data'
StoreExtracted(ss, shown, data) ==
    IF data = None THEN RunEnd(ss, "complete", shown)
    ELSE IF ~(SummaryKeys \subseteq DOMAIN data)
    THEN RunEnd([ss EXCEPT !.extracted_data = data],        \* line 260, then
                "KeyError", shown)                           \* lines 269-272
    ELSE RunEnd([ss EXCEPT
                    !.extracted_data = data,
                    !.messages = Append(@, [role |-> "assistant",
                                            content |-> Summary(data)]),
                    !.step = "confirm",
                    !.scroll_trigger = TRUE],
                "rerun", {})

\* lines 246-280: the prompt `text' was submitted; `shown' are the widgets
\* the run has put on the page so far
HandlePrompt(ss, shown, text, reply, today) ==
    StoreExtracted(AppendPrompt(ResetForPrompt(ss), text), shown,
                   Extract(reply, today))

\* lines 212-219 and 234-241: the results of a step are stored and shown
StoreResults(ss, key, content, results) ==
    RunEnd([ss EXCEPT
                ![key] = results,
                !.messages = Append(@, [role |-> "assistant",
                                        content |-> content,
                                        table |-> results]),
                !.step = "confirm",
                !.scroll_trigger = TRUE],
           "rerun", {})

\* lines 203-220: step discovery
RunDiscovery(ss, shown, search, found) ==
    IF ss.extracted_data = None
    THEN RunEnd(ss, "AttributeError", shown)     \* feature_engine.py line 117
    ELSE IF search = "raise" THEN RunEnd(ss, "SearchError", shown)
    ELSE StoreResults(ss, "selected_features", <<"top", "features">>,
                      PyList(SearchAndReason("FAISS", found).val))

\* lines 225-242: process_segmentation has ended with outcome `got'
StoreSegmentation(ss, shown, got) ==
    IF IsExc(got) THEN RunEnd(ss, got.exc, shown)
    ELSE StoreResults(ss, "segmentation_results", <<"segmentation", "done">>,
                      PyList(got.val))

\* lines 222-242: step segmentation
RunSegmentation(ss, shown, response, today) ==
    IF ss.extracted_data = None
    THEN RunEnd(ss, "AttributeError", shown)     \* targeting_engine.py line 44
    ELSE IF ss.selected_features = None
    THEN RunEnd(ss, "TypeError", shown)          \* targeting_engine.py line 74
    ELSE StoreSegmentation(ss, shown,
            ProcessSegmentation(ss.extracted_data, response, today))

\* lines 196-280: the step logic, the messages being rendered with the
\* widgets `shown'
RunStep(ss, shown, event, env) ==
    CASE ss.step = "end" ->                                      \* lines 196-201
            IF Clicked(event, "restart")
            THEN RunEnd(EmptySession, "rerun", {})
            ELSE RunEnd(ss, "complete", shown \cup {"restart"})
      [] ss.step = "discovery" ->
            RunDiscovery(ss, shown, env.search, env.found)
      [] ss.step = "segmentation" ->
            RunSegmentation(ss, shown, env.response, env.today)
      [] OTHER ->                                                \* line 245
            IF event.kind = "prompt"
            THEN HandlePrompt(ss, shown \cup {"chat_input"},
                              event.text, env.reply, env.today)
            ELSE RunEnd(ss, "complete", shown \cup {"chat_input"})

\* lines 162-280: the script after initialize_ui
RunScript(ss, event, env) ==
    IF env.engines = "fail"
    THEN RunEnd(ss, "EngineError", {})                           \* lines 162-164
    ELSE IF /\ ButtonsShown(ss)
            /\ event.kind = "click"
            /\ event.widget \in WorkflowButtons
    THEN RunEnd(HandleWorkflowButtons(ss, event.widget), "rerun", {})
    ELSE RunStep([ss EXCEPT !.scroll_trigger = FALSE],           \* lines 181-193
                 IF ButtonsShown(ss) THEN WorkflowButtons ELSE {},
                 event, env)

\* lines 156-280, main(): one script run for `event' on session state ss0.
\* env holds the conditions of the services during the run: whether the
\* engines can be constructed, the reply of the language model to the
\* extraction, whether the index answers and with what, the outcome of the
\* generative-service chain, and the day.
Main(ss0, event, env) == RunScript(InitializeUi(ss0), event, env)

(***************************************************************************)
(* The events of a browser session and the conditions of the services.     *)
(***************************************************************************)
Prompts == {<<"prompt", j>> : j \in 1..MaxPrompts}

UiDays == {45 + 103 * j : j \in 0..MaxUiNow}

\* replies of the language model to the extraction: it raises, it answers
\* with a JSON list, with every field, with the required fields only, with a
\* frequency of 0, or without the product
ExtractionReplies ==
    {[kind |-> "raise"],
     [kind |-> "json", data |-> [type |-> "list"]],
     [kind |-> "json",
      data |-> JsonDict([product |-> Product, frequency |-> 2,
                         target_count |-> Example100Man, metric |-> <<"CTR">>,
                         start_days_relative |-> 0, duration_days |-> 3])],
     [kind |-> "json",
      data |-> JsonDict([product |-> Product, frequency |-> 1,
                         target_count |-> Example50000])],
     [kind |-> "json",
      data |-> JsonDict([product |-> Product, frequency |-> 0,
                         target_count |-> Example100Man, metric |-> <<"N/A">>])],
     [kind |-> "json",
      data |-> JsonDict([frequency |-> 2, target_count |-> Example100Man])]}

\* what the index answers during a discovery: two documents at distance 0
FoundSets ==
    {r \in Retrievals(2) : \A i \in 1..2 : r[i][1].id <= 2 /\ r[i][2].num = 0}

\* the generative-service chain during a segmentation: it raises, or returns
\* two items, well-formed or the first without its name
ChainResponses ==
    {[kind |-> "raise"]}
        \cup {[kind |-> "json",
               data |-> JsonDict([segments |-> [type |-> "list", items |-> l]])] :
                l \in {AiItems(2, 0, "ok"), AiItems(2, 1, "noname")}}

\* the conditions that matter to a run in step `step' handling `event'; the
\* others are fixed
Conditions(step, event) ==
    {[engines |-> e, reply |-> r, search |-> s, found |-> f, response |-> a,
      today |-> d] :
        e \in {"ok", "fail"},
        r \in IF event.kind = "prompt" THEN ExtractionReplies ELSE {[kind |-> "raise"]},
        s \in IF step = "discovery" THEN {"ok", "raise"} ELSE {"ok"},
        f \in IF step = "discovery" THEN FoundSets ELSE {<<>>},
        a \in IF step = "segmentation" THEN ChainResponses ELSE {[kind |-> "raise"]},
        d \in UiDays}

\* no browser session
UiIdle ==
    /\ session_state = NoCall
    /\ widgets = {}
    /\ last_run = NoCall

\* a browser has opened the page: the session is new and the first script
\* run is due
UiInit ==
    /\ session_state = EmptySession
    /\ widgets = {}
    /\ last_run = [event |-> NoEvent, end |-> "rerun"]

RunDue == last_run.end = "rerun"

\* the session and the page after a script run
EndOfRun(run, event) ==
    /\ session_state' = run.session
    /\ widgets' = run.widgets
    /\ last_run' = [event |-> event, end |-> run.end]

\* one script run for `event'
ScriptRun(event) ==
    \E env \in Conditions(InitializeUi(session_state).step, event) :
        EndOfRun(Main(session_state, event, env), event)

\* the run of the page load, or the one st.rerun() asked for
Rerun == RunDue /\ ScriptRun(NoEvent)

\* the user submits a prompt in the chat input
ChatInput ==
    /\ ~RunDue
    /\ "chat_input" \in widgets
    /\ Len(session_state.messages) < MaxMessages
    /\ \E text \in Prompts : ScriptRun(PromptEvent(text))

\* the user clicks one of the three workflow buttons
ContinueButton == ~RunDue /\ "continue" \in widgets /\ ScriptRun(ClickEvent("continue"))
ResetButton == ~RunDue /\ "reset" \in widgets /\ ScriptRun(ClickEvent("reset"))
StopButton == ~RunDue /\ "stop" \in widgets /\ ScriptRun(ClickEvent("stop"))

\* the user clicks the button that starts a new consultation
NewConsultationButton ==
    ~RunDue /\ "restart" \in widgets /\ ScriptRun(ClickEvent("restart"))

(***************************************************************************)
(* Specifications.  Every operation is a function of its arguments and of  *)
(* the condition of an external service, so a behaviour is one call.       *)
(***************************************************************************)
\* the segmentation generator
Init == SegInit /\ ParseIdle /\ SearchIdle /\ SimIdle /\ CatalogIdle /\ UiIdle

Next == SegmentationCall /\ UNCHANGED <<parseVars, searchVars, simVars, catalogVars, uiVars>>

Spec == Init /\ [][Next]_vars

\* the target-count parser alone
InitParse == ParseInit /\ SegIdle /\ SearchIdle /\ SimIdle /\ CatalogIdle /\ UiIdle

NextParse == ParseCall /\ UNCHANGED <<segVars, searchVars, simVars, catalogVars, uiVars>>

SpecParse == InitParse /\ [][NextParse]_vars

\* the feature search engine: the build, then a search
InitSearch == SearchInit /\ ParseIdle /\ SegIdle /\ SimIdle /\ CatalogIdle /\ UiIdle

NextSearch ==
    \/ InitializeFeatures /\ UNCHANGED <<parseVars, segVars, simVars, catalogVars, uiVars>>
    \/ InitializeFeaturesFails /\ UNCHANGED <<parseVars, segVars, simVars, catalogVars, uiVars>>
    \/ SearchCall /\ UNCHANGED <<parseVars, segVars, simVars, catalogVars, uiVars>>

SpecSearch == InitSearch /\ [][NextSearch]_vars

\* the similarity conversion alone
InitSim == SimInit /\ ParseIdle /\ SegIdle /\ SearchIdle /\ CatalogIdle /\ UiIdle

NextSim == SimilarityCall /\ UNCHANGED <<parseVars, segVars, searchVars, catalogVars, uiVars>>

SpecSim == InitSim /\ [][NextSim]_vars

\* the catalog builds of one process
InitCatalog ==
    CatalogInit /\ ParseIdle /\ SegIdle /\ SearchIdle /\ SimIdle /\ UiIdle

NextCatalog ==
    \/ BuildCatalog /\ UNCHANGED <<parseVars, segVars, searchVars, simVars, uiVars>>
    \/ BuildCatalogFails /\ UNCHANGED <<parseVars, segVars, searchVars, simVars, uiVars>>

SpecCatalog == InitCatalog /\ [][NextCatalog]_vars

\* the UI driver: one browser session
InitUi == UiInit /\ ParseIdle /\ SegIdle /\ SearchIdle /\ SimIdle /\ CatalogIdle

otherVars == <<parseVars, segVars, searchVars, simVars, catalogVars>>

NextUi ==
    \/ Rerun /\ UNCHANGED otherVars
    \/ ChatInput /\ UNCHANGED otherVars
    \/ ContinueButton /\ UNCHANGED otherVars
    \/ ResetButton /\ UNCHANGED otherVars
    \/ StopButton /\ UNCHANGED otherVars
    \/ NewConsultationButton /\ UNCHANGED otherVars

SpecUi == InitUi /\ [][NextUi]_vars

(***************************************************************************)
(* Properties of process_segmentation (specification Spec).                *)
(***************************************************************************)
SegCalled == seg_outcome # NoCall
SegReturned == "val" \in DOMAIN seg_outcome
Segments == seg_outcome.val

\* a request that carries a frequency >= 1
ValidRequest == "frequency" \in DOMAIN plan_data /\ plan_data.frequency >= 1

\* the documented segment count of a valid request
DocumentedN == IF plan_data.frequency = 1 THEN 5 ELSE plan_data.frequency

\* the service returned {"segments": [...]} with every item well-formed
AiReturnedList ==
    /\ ai_response.kind = "json"
    /\ ai_response.data.type = "dict"
    /\ "segments" \in DOMAIN ai_response.data.entries
    /\ ai_response.data.entries.segments.type = "list"

AiReturnedItems == ai_response.data.entries.segments.items

AiWellFormedList ==
    /\ AiReturnedList
    /\ \A i \in 1..Len(AiReturnedItems) : DOMAIN AiReturnedItems[i] = {"name", "traits"}

\* the call raised, or it returned a well-formed list of any length
AiRaisedOrWellFormed == ai_response.kind = "raise" \/ AiWellFormedList

\* the call raised, timed out, or returned non-JSON or schema-mismatched output
AiFailedOrMismatched ==
    \/ ai_response.kind \in {"raise", "unparseable"}
    \/ ~AiReturnedList
    \/ \E i \in 1..Len(AiReturnedItems) : DOMAIN AiReturnedItems[i] # {"name", "traits"}

\* the number a volume string shows
VolumeOf(seg) == PyInt(Remove(Remove(seg.volume, ","), "MYEONG")).val

RECURSIVE SumVolumes(_)
SumVolumes(segs) ==
    IF segs = <<>> THEN 0 ELSE VolumeOf(Head(segs)) + SumVolumes(Tail(segs))

\* the day number of a calendar triple: the days of the years and months before it
RECURSIVE DaysBeforeYear(_)
DaysBeforeYear(y) == IF y <= 2024 THEN 0 ELSE DaysBeforeYear(y - 1) + DaysInYear(y - 1)

RECURSIVE DaysBeforeMonth(_, _)
DaysBeforeMonth(y, m) ==
    IF m <= 1 THEN 0 ELSE DaysBeforeMonth(y, m - 1) + DaysInMonth(y, m - 1)

DayNumber(date) == DaysBeforeYear(date[1]) + DaysBeforeMonth(date[1], date[2]) + date[3] - 1

\* chronological order of calendar triples, as the order of the strings
\* "%Y-%m-%d": year, then month, then day
DateLeq(d1, d2) ==
    \/ d1[1] < d2[1]
    \/ d1[1] = d2[1] /\ d1[2] < d2[2]
    \/ d1[1] = d2[1] /\ d1[2] = d2[2] /\ d1[3] <= d2[3]

\* C1: for every request with frequency >= 1 and every outcome of the
\* generative-service call (it raises, or returns fewer than N, exactly N or
\* more than N well-formed items), process_segmentation returns exactly N
\* segments, N = 5 when frequency = 1 and N = frequency otherwise.
C1_ExactlyNSegments ==
    (SegCalled /\ ValidRequest /\ AiRaisedOrWellFormed)
        => (SegReturned /\ Len(Segments) = DocumentedN)

\* C2: whenever the generative-service call raises, times out, returns
\* non-JSON output or schema-mismatched output, process_segmentation does not
\* raise and returns the N fallback segments, named by ordinal, each with a
\* non-empty name and a non-empty trait string.
C2_FallbackOnEveryFailure ==
    (SegCalled /\ ValidRequest /\ AiFailedOrMismatched)
        => /\ SegReturned
           /\ Len(Segments) = DocumentedN
           /\ \A i \in 1..Len(Segments) :
                /\ Segments[i].seg_name = FallbackName(i - 1)
                /\ Segments[i].seg_name # <<>>
                /\ Segments[i].seg_traits # <<>>

\* C3: for every request with frequency >= 1, every parsed total_count and
\* every outcome of the generative-service call, each returned segment carries
\* total_count // N and the volumes sum to (total_count // N) * N.
C3_VolumeConservation ==
    (SegCalled /\ ValidRequest /\ AiRaisedOrWellFormed)
        => /\ SegReturned
           /\ \A i \in 1..Len(Segments) :
                VolumeOf(Segments[i]) = TotalTarget(plan_data) \div DocumentedN
           /\ SumVolumes(Segments) = (TotalTarget(plan_data) \div DocumentedN) * DocumentedN

\* C4: in every result of process_segmentation the send dates are
\* non-decreasing in ascending ordinal index, and the first segment's send date
\* is at least now + 7 days.
C4_SendDatesNonDecreasing ==
    SegReturned
        => /\ \A i, j \in 1..Len(Segments) :
                i < j => DateLeq(Segments[i].send_date, Segments[j].send_date)
           /\ Segments # <<>> => DayNumber(Segments[1].send_date) >= now + 7

\* C4's case: several segments, spread over dates that cross a month's end
C4_Witness ==
    /\ SegReturned
    /\ Len(Segments) >= 3
    /\ Segments[1].send_date[2] # Segments[Len(Segments)].send_date[2]
    /\ Segments[1].send_date # Segments[2].send_date

\* the end-to-end request of the documentation
ScenarioRequest == [product |-> Product, target_count |-> Example100Man, frequency |-> 4]

\* C5: with base_date = now + 7 days, a request of frequency f > 1 yields f
\* segments, the one of ordinal i with volume total_count // f and send date
\* base_date + 3 * (i - 1) days; a request of frequency 1 yields segments that
\* all share base_date; the request {target_count: "100 MAN MYEONG",
\* frequency: 4} yields 4 segments of volume 250,000 dated now + 7, 10, 13, 16.
C5_GapRuleAndScenario ==
    (SegCalled /\ ValidRequest /\ AiRaisedOrWellFormed)
        => /\ SegReturned
           /\ Len(Segments) = DocumentedN
           /\ \A i \in 1..Len(Segments) :
                /\ VolumeOf(Segments[i]) = TotalTarget(plan_data) \div DocumentedN
                /\ DayNumber(Segments[i].send_date) =
                        IF plan_data.frequency > 1 THEN now + 7 + 3 * (i - 1) ELSE now + 7
           /\ plan_data = ScenarioRequest
                => /\ Len(Segments) = 4
                   /\ \A i \in 1..Len(Segments) :
                        /\ VolumeOf(Segments[i]) = 250000
                        /\ DayNumber(Segments[i].send_date) = now + 7 + 3 * (i - 1)

(***************************************************************************)
(* Properties of _parse_target_count (specification SpecParse).            *)
(***************************************************************************)
\* the documented rule: separators and unit suffix stripped, a string with the
\* magnitude word is its numeric prefix times 10000, truncated; any other
\* string is its integer value; whatever cannot be parsed is 900000
DocumentedCount(arg) ==
    IF arg.type # "str" THEN 900000
    ELSE LET clean == Strip(Remove(Remove(arg.chars, ","), "MYEONG"))
             prefix == PyFloatLiteral(Remove(clean, "MAN"))
             whole == PyInt(clean)
         IN  IF Contains(clean, "MAN")
             THEN IF IsExc(prefix) THEN 900000
                  ELSE LET mag == (prefix.val.m * 10000) \div Pow(10, prefix.val.f)
                       IN  IF prefix.val.neg THEN 0 - mag ELSE mag
             ELSE IF IsExc(whole) THEN 900000 ELSE whole.val

\* C6: _parse_target_count never fails; a string with the magnitude word
\* yields trunc(numeric prefix * 10000), any other string its integer value,
\* every other input 900000; "100 MAN MYEONG" -> 1000000, "50,000" -> 50000,
\* "garbage" -> 900000.
C6_ParseDocumentedValue ==
    parsed # NoCall
        => /\ "val" \in DOMAIN parsed
           /\ parsed.val = DocumentedCount(count_str)
           /\ count_str = Example100Man => parsed.val = 1000000
           /\ count_str = Example50000 => parsed.val = 50000
           /\ count_str = ExampleGarbage => parsed.val = 900000

(***************************************************************************)
(* Properties of search_and_reason (specification SpecSearch).             *)
(***************************************************************************)
SearchReturned == "val" \in DOMAIN search_outcome
Rows == search_outcome.val

\* the place of document id in the retrieval
RetrievedAt(id) == CHOOSE i \in 1..Len(retrieved) : retrieved[i][1].id = id

\* C7: when the index is unbuilt (vector_store is still unset),
\* search_and_reason fails with an IndexNotReadyError.
C7_IndexNotReadyError ==
    (search_outcome # NoCall /\ vector_store = "None")
        => search_outcome = Exc("IndexNotReadyError")

\* C8: for a retrieval of k documents in ascending distance, search_and_reason
\* returns exactly k results, one per retrieved document, ordered by
\* similarity non-increasing, and results of equal similarity keep their
\* retrieval order.
C8_SortedStable ==
    SearchReturned
        => /\ Len(Rows) = search_k
           /\ \A i \in 1..Len(retrieved) :
                Cardinality({j \in 1..Len(Rows) : Rows[j].no = retrieved[i][1].id}) = 1
           /\ \A i, j \in 1..Len(Rows) :
                i < j => /\ Rows[i].similarity >= Rows[j].similarity
                         /\ Rows[i].similarity = Rows[j].similarity
                                => RetrievedAt(Rows[i].no) < RetrievedAt(Rows[j].no)

\* C8's case: three results, two of one similarity that were retrieved
\* against the order of their ids, the third of another similarity
C8_Witness ==
    /\ SearchReturned
    /\ Len(Rows) = 3
    /\ Rows[1].similarity = Rows[2].similarity
    /\ Rows[1].no > Rows[2].no
    /\ Rows[2].similarity > Rows[3].similarity
    /\ retrieved[1][2] # retrieved[2][2]

(***************************************************************************)
(* Properties of the similarity conversion (specification SpecSim).        *)
(* Similarities are in units of 1/10000.                                   *)
(***************************************************************************)
SimDone == similarities # NoCall

\* C9 as stated: for every non-negative distance the reported similarity lies
\* in (0, 1], is 1.0 at distance 0, never exceeds 1 and never reaches 0.
C9_SimilarityInHalfOpenUnit ==
    SimDone
        => \A i \in 1..2 :
            /\ similarities[i] > 0
            /\ similarities[i] <= 10000
            /\ scores[i].num = 0 => similarities[i] = 10000

\* C9, amended: for every non-negative distance the reported similarity lies
\* in [0, 1], is 1.0 at distance 0 and never exceeds 1; it is at least 0.0001
\* for every distance up to 19998 and is 0.0 from distance 20000 on.
C9_SimilarityInClosedUnit ==
    SimDone
        => \A i \in 1..2 :
            /\ similarities[i] >= 0
            /\ similarities[i] <= 10000
            /\ scores[i].num = 0 => similarities[i] = 10000
            /\ ScoreLeq(scores[i], Score(19998, 1)) => similarities[i] >= 1
            /\ ScoreLeq(Score(20000, 1), scores[i]) => similarities[i] = 0

\* C9's case: a distance of 20000 or more reported as 0.0, beside distance 0
C9_Witness ==
    /\ SimDone
    /\ ScoreLeq(Score(20000, 1), scores[1])
    /\ similarities[1] = 0
    /\ scores[2].num = 0
    /\ similarities[2] = 10000

\* C10 as stated: for distances d1 < d2 the similarity reported for d1 is
\* strictly greater than the one reported for d2.
C10_StrictlyDecreasing ==
    (SimDone /\ ScoreLess(scores[1], scores[2])) => similarities[1] > similarities[2]

\* C10, amended: for distances d1 < d2 the similarity reported for d1 is
\* never smaller than the one reported for d2 (the rounding to 4 decimal
\* places reports equal similarities for distances that are close).
C10_NonIncreasing ==
    (SimDone /\ ScoreLess(scores[1], scores[2])) => similarities[1] >= similarities[2]

\* C10's case: two different distances reported with the same similarity
C10_Witness ==
    /\ SimDone
    /\ ScoreLess(scores[1], scores[2])
    /\ similarities[1] = similarities[2]
    /\ similarities[1] > 0

(***************************************************************************)
(* The catalog builds (SpecCatalog).                                       *)
(***************************************************************************)
CatalogBuilt == documents # NoCall
BuiltTwice == documents # NoCall /\ previous_documents # NoCall

\* the archetype index and the tag index a document's name stands for, both
\* counted from 0
ArchetypeIndexOf(d) == d.name[2]
SegmentIndexOf(d) == d.name[4]
PairOf(d) == <<ArchetypeIndexOf(d), SegmentIndexOf(d)>>
AllPairs == (0..(NumArchetypes - 1)) \X (0..(Len(segments) - 1))
DocsOf(list) == {list[p] : p \in 1..Len(list)}

\* one document per pair, all the pairs present
OnePerPair(list) ==
    /\ Len(list) = Cardinality(AllPairs)
    /\ {PairOf(d) : d \in DocsOf(list)} = AllPairs

IdsDistinct(list) ==
    \A p, q \in 1..Len(list) : p # q => list[p].id # list[q].id

\* two builds give every pair the same id
SameIds(list1, list2) ==
    \A d \in DocsOf(list1), e \in DocsOf(list2) :
        PairOf(d) = PairOf(e) => d.id = e.id

Signals(d) == <<d.count, d.time, d.recency, d.trend_weekly, d.trend_monthly>>

\* C11, as stated: every catalog build yields one instance for each of the
\* 15 x 5 (archetype, tag) pairs, the id of an instance is
\* archetype_index * segment_count + segment_index (the indices of the two
\* loops, counted from 0), the ids of a build are pairwise distinct, and two
\* builds in one process assign the same ids.
C11_IdIsIndexFormula ==
    CatalogBuilt =>
        /\ OnePerPair(documents)
        /\ \A d \in DocsOf(documents) :
              d.id = ArchetypeIndexOf(d) * Len(segments) + SegmentIndexOf(d)
        /\ IdsDistinct(documents)
        /\ BuiltTwice => SameIds(documents, previous_documents)

\* C11, amended: as above, with the id
\* archetype_index * segment_count + segment_index + 1, so the ids of a build
\* are 1..75.
C11_IdIsIndexFormulaPlusOne ==
    CatalogBuilt =>
        /\ OnePerPair(documents)
        /\ \A d \in DocsOf(documents) :
              d.id = ArchetypeIndexOf(d) * Len(segments) + SegmentIndexOf(d) + 1
        /\ {d.id : d \in DocsOf(documents)} = 1..(NumArchetypes * Len(segments))
        /\ IdsDistinct(documents)
        /\ BuiltTwice => SameIds(documents, previous_documents)

\* two builds of one process whose signals differ for an instance
C11_Witness ==
    /\ BuiltTwice
    /\ \E p \in 1..Len(documents) :
          /\ documents[p].id = previous_documents[p].id
          /\ documents[p].id = NumArchetypes * Len(segments)
          /\ Signals(documents[p]) # Signals(previous_documents[p])

(***************************************************************************)
(* Requests with a frequency of zero or less (Spec).                       *)
(***************************************************************************)
NonPositiveRequest == "frequency" \in DOMAIN plan_data /\ plan_data.frequency <= 0

\* what the call returns for the same request, service condition and day
\* when the frequency is f
OutcomeWithFrequency(f) ==
    ProcessSegmentation([plan_data EXCEPT !.frequency = f], ai_response, now)

\* C12: a request whose frequency is zero or negative is either rejected
\* (process_segmentation raises, no segment list is returned) or clamped (it
\* returns what it returns for some frequency >= 1); it never returns a
\* segment list computed from a non-positive segment count.
C12_RejectedOrClamped ==
    (SegCalled /\ NonPositiveRequest) =>
        \/ IsExc(seg_outcome)
        \/ \E f \in 1..MaxFreq : seg_outcome = OutcomeWithFrequency(f)

(***************************************************************************)
(* The UI driver (SpecUi).                                                 *)
(***************************************************************************)
\* the session state as the next script run finds it after initialize_ui
Session == InitializeUi(session_state)

UserMessages == SelectSeq(Session.messages, LAMBDA m : m.role = "user")

IsPrefix(s1, s2) == Len(s1) <= Len(s2) /\ SubSeq(s2, 1, Len(s1)) = s1

\* the step is a script run that handled a prompt to its end
PromptHandled ==
    /\ last_run'.event.kind = "prompt"
    /\ last_run'.end \in {"complete", "rerun"}

\* C14: once a prompt has been handled, the stored ranked features and
\* segmentation results are empty, the stored campaign data is either data
\* extracted from the prompt, with step confirm, or empty, with step input,
\* and the chat is the earlier chat with messages appended.
C14_PromptIsFreshStart ==
    [][PromptHandled =>
        /\ session_state'.selected_features = None
        /\ session_state'.segmentation_results = None
        /\ \/ /\ session_state'.step = "confirm"
              /\ \E reply \in ExtractionReplies, today \in UiDays :
                    session_state'.extracted_data = Extract(reply, today)
              /\ session_state'.extracted_data # None
           \/ /\ session_state'.step = "input"
              /\ session_state'.extracted_data = None
        /\ IsPrefix(Session.messages, session_state'.messages)
        /\ Len(session_state'.messages) > Len(Session.messages)]_vars
====
